---- MODULE Spec2Model ----
(***************************************************************************)
(* Booking / payment reconciliation of CBS_Backend.                        *)
(*                                                                         *)
(* The state is the two D1 tables the handlers read and write (payments,   *)
(* bookings) plus the requests in flight.  Every handler is an async       *)
(* function: each awaited database statement is one atomic step, and steps *)
(* of different requests interleave.  A gateway call touches no table, so  *)
(* it is taken together with the database statement that follows it.  The  *)
(* gateway and the HTTP clients are the environment: what they report is   *)
(* drawn from small sets.  The order status a request carries is not read  *)
(* by anything before the statement that writes it, so it is drawn in the  *)
(* step of that statement.                                                 *)
(*                                                                         *)
(* bookings.paymentId (in routes) and bookings.orderId (in controllers) are *)
(* the same reference from a booking to its payment order; the model keeps *)
(* it in the field paymentId.                                              *)
(***************************************************************************)
EXTENDS Integers, FiniteSets, Sequences, TLC

\* ---------------------------------------------------------------- bounds
MaxRequests == 3
MaxBookings == 2
\* how many requests may arrive while another one is still being handled
MaxOverlaps == 1

Slots == 1..(MaxOverlaps + 1)
BookingIds == 1..MaxBookings
\* order ids ORDER_<nanoid>: creation k generates order id k; one more id
\* stands for an order id that no creation ever generated
OrderIds == 1..(MaxBookings + 1)
Users == {"u1", "u2"}
Dates == {"d1"}

\* ------------------------------------------------------------ vocabulary
NoOrder == 0
NoBooking == 0
NoTime == 0
NoMethod == "null"
NoSession == ""
NoStatus == "none"
NoUser == "nobody"
NoDate == "nodate"
NoSignature == <<>>
ForgedSignature == <<"forged">>

RecognizedStatuses == {"PENDING", "PAID", "FAILED", "CANCELLED", "EXPIRED", "USER_DROPPED"}
\* what the gateway (or a webhook body) may report: the recognized values
\* and one value outside the table (Cashfree's ACTIVE)
ReportedStatuses == RecognizedStatuses \cup {"ACTIVE"}
Methods == {NoMethod, "upi"}

Amount == 500
Currency == "INR"

\* createOrderCalls[o]: how many times cashfree.createOrder was invoked with
\* order id o
VARIABLES payments, bookings, reqs, now, overlaps, nextId, lastResponse,
          createOrderCalls

vars == <<payments, bookings, reqs, now, overlaps, nextId, lastResponse,
          createOrderCalls>>

\* ----------------------------------------------------------- table rows
PaymentRow(session, st, method, ptime, upd) ==
  [paymentSessionId |-> session, amount |-> Amount, currency |-> Currency,
   status |-> st, paymentMethod |-> method, paymentTime |-> ptime,
   updatedAt |-> upd]

BookingRow(u, d, o, upd) ==
  [userId |-> u, date |-> d, status |-> "pending", paymentStatus |-> "pending",
   paymentId |-> o, updatedAt |-> upd]

\* db.update(bookings).set(fields).where(<column paymentId> = o)
BookingsOf(o) == {b \in DOMAIN bookings : bookings[b].paymentId = o}

\* ------------------------------------------------------ requests in flight
Idle ==
  [kind |-> "idle", pc |-> "idle", orderId |-> NoOrder, bookingId |-> NoBooking,
   user |-> NoUser, date |-> NoDate, seenStatus |-> NoStatus,
   seenMethod |-> NoMethod,
   signature |-> NoSignature]

\* the JSON response of the step just taken, if that step answered a request
Response(code, st) == [code |-> code, status |-> st]
NoResponse == Response(0, NoStatus)

IsIdle(r) == reqs[r].pc = "idle"

\* a request arrives while the budget of requests is not used up; it is
\* served by the first free slot (slots are interchangeable), and the clock
\* has advanced since the previous arrival
Arrive(r) ==
  /\ IsIdle(r)
  /\ \A q \in Slots : q < r => ~IsIdle(q)
  /\ now < MaxRequests
  /\ now' = now + 1
  /\ IF \A q \in Slots : IsIdle(q)
       THEN UNCHANGED overlaps
       ELSE overlaps < MaxOverlaps /\ overlaps' = overlaps + 1

Respond(r, code, st) ==
  /\ reqs' = [reqs EXCEPT ![r] = Idle]
  /\ lastResponse' = Response(code, st)

Goto(r, rec) ==
  /\ reqs' = [reqs EXCEPT ![r] = rec]
  /\ lastResponse' = NoResponse

Init ==
  /\ payments = <<>>
  /\ bookings = <<>>
  /\ reqs = [r \in Slots |-> Idle]
  /\ now = 0
  /\ overlaps = 0
  /\ nextId = 1
  /\ lastResponse = NoResponse
  /\ createOrderCalls = [o \in OrderIds |-> 0]

\* ---------------------------------------------------- gateway adapter
PaymentDetails ==
  {[method |-> NoMethod, ptime |-> NoTime], [method |-> "upi", ptime |-> 1]}

\* verifyOrder resolves with the order status the gateway holds and the
\* payment details (payment_method || null, payment_time || null)
VerifyOrderResults ==
  {[status |-> st, method |-> d.method, ptime |-> d.ptime] :
     st \in ReportedStatuses, d \in PaymentDetails}

\* createOrder resolves with the payment session of the order
SessionOf(o) == "session"

\* generateSignature: HMAC-SHA256 of the serialized payload under the client
\* secret; equal payloads give equal signatures, different payloads differ
generateSignature(payload) == <<"hmac", payload>>

verifyWebhookSignature(payload, signature) == signature = generateSignature(payload)

\* -------------------------------------------- POST /bookings (part_004)
\* findFirst(userId, date); 400 when a row matches, whatever its status
CreateBookingCheck(r, u, d) ==
  /\ Arrive(r)
  /\ UNCHANGED <<payments, bookings, createOrderCalls>>
  /\ IF \E b \in DOMAIN bookings : bookings[b].userId = u /\ bookings[b].date = d
       THEN Respond(r, 400, NoStatus) /\ UNCHANGED nextId
       ELSE /\ nextId <= MaxBookings
            /\ nextId' = nextId + 1
            /\ Goto(r, [Idle EXCEPT !.kind = "createBooking", !.pc = "cb_insbook",
                                     !.user = u, !.date = d,
                                     !.bookingId = nextId, !.orderId = nextId])

CreateBookingInsertBooking(r) ==
  /\ reqs[r].pc = "cb_insbook"
  /\ bookings' = bookings @@
       (reqs[r].bookingId :> BookingRow(reqs[r].user, reqs[r].date, reqs[r].orderId, now))
  /\ Goto(r, [reqs[r] EXCEPT !.pc = "cb_inspay"])
  /\ UNCHANGED <<payments, now, overlaps, nextId, createOrderCalls>>

CreateBookingInsertPayment(r) ==
  /\ reqs[r].pc = "cb_inspay"
  /\ payments' = payments @@
       (reqs[r].orderId :> PaymentRow(NoSession, "PENDING", NoMethod, NoTime, now))
  /\ Goto(r, [reqs[r] EXCEPT !.pc = "cb_updsess"])
  /\ UNCHANGED <<bookings, now, overlaps, nextId, createOrderCalls>>

\* the update of the session id left out: the request answers without it
CreateBookingUpdateSession_SessionNotStored(r) ==
  /\ reqs[r].pc = "cb_updsess"
  /\ createOrderCalls' = [createOrderCalls EXCEPT ![reqs[r].orderId] = @ + 1]
  /\ UNCHANGED payments
  /\ \/ Respond(r, 200, NoStatus)
     \/ Respond(r, 500, NoStatus)
  /\ UNCHANGED <<bookings, now, overlaps, nextId>>

\* cashfree.createOrder, then the update of the session id; a throw of
\* createOrder is caught and rethrown as 500, the two inserted rows stay
CreateBookingUpdateSession(r) ==
  /\ reqs[r].pc = "cb_updsess"
  /\ createOrderCalls' = [createOrderCalls EXCEPT ![reqs[r].orderId] = @ + 1]
  /\ \/ /\ LET o == reqs[r].orderId IN
             payments' = [payments EXCEPT ![o].paymentSessionId = SessionOf(o),
                                          ![o].updatedAt = now]
        /\ Respond(r, 200, NoStatus)
     \/ /\ UNCHANGED payments
        /\ Respond(r, 500, NoStatus)
  /\ UNCHANGED <<bookings, now, overlaps, nextId>>

\* ------------- POST /payments (routes/payment.ts), POST /payment (controllers)
\* the order id a client makes up; the other order ids a client can send are
\* those of the payment orders it was told about
ClientOrderId == MaxBookings + 1

\* createOrder resolves with order_status: data.order_status || 'PENDING'
\* (Cashfree reports a new order as ACTIVE)
CreateOrderStatuses == {"PENDING", "ACTIVE"}

\* the payment row inserted before createOrder is called
CreatePaymentSession_InsertFirst(r, o) ==
  /\ Arrive(r)
  /\ o = NoOrder \/ o \in DOMAIN payments \/ o = ClientOrderId
  /\ IF o = NoOrder
       THEN /\ UNCHANGED <<payments, createOrderCalls>>
            /\ Respond(r, 400, NoStatus)
       ELSE /\ createOrderCalls' = [createOrderCalls EXCEPT ![o] = @ + 1]
            /\ IF o \in DOMAIN payments
                 THEN UNCHANGED payments /\ Respond(r, 500, NoStatus)
                 ELSE /\ payments' = payments @@
                           (o :> PaymentRow(SessionOf(o), "PENDING", NoMethod, NoTime, now'))
                      /\ \/ Respond(r, 500, NoStatus)
                         \/ Respond(r, 200, "PENDING")
  /\ UNCHANGED <<bookings, nextId>>

\* a body without order_id (NoOrder) is answered 400 before any call;
\* cashfree.createOrder with the order_id of the body, then the insert of the
\* payment row; a throw of createOrder, or of the insert (order_id is
\* unique), becomes 500
CreatePaymentSession(r, o) ==
  /\ Arrive(r)
  /\ o = NoOrder \/ o \in DOMAIN payments \/ o = ClientOrderId
  /\ IF o = NoOrder
       THEN /\ UNCHANGED <<payments, createOrderCalls>>
            /\ Respond(r, 400, NoStatus)
       ELSE /\ createOrderCalls' = [createOrderCalls EXCEPT ![o] = @ + 1]
            /\ \/ /\ UNCHANGED payments
                  /\ Respond(r, 500, NoStatus)
               \/ \E st \in CreateOrderStatuses :
                    IF o \in DOMAIN payments
                      THEN UNCHANGED payments /\ Respond(r, 500, NoStatus)
                      ELSE /\ payments' = payments @@
                                (o :> PaymentRow(SessionOf(o), st, NoMethod, NoTime, now'))
                           /\ Respond(r, 200, st)
  /\ UNCHANGED <<bookings, nextId>>

\* ------------------------- POST /bookings (controllers/booking.ts)
\* the booking row of the older bookings table: status 'Pending', no
\* payment_status column
ControllerBookingRow(u, d, o, upd) ==
  [userId |-> u, date |-> d, status |-> "Pending", paymentStatus |-> NoStatus,
   paymentId |-> o, updatedAt |-> upd]

\* the insert takes the order id from the body; order_id is unique and
\* references payments(order_id), a constraint failure becomes 500
ControllerCreateBooking(r, u, d, o) ==
  /\ Arrive(r)
  /\ UNCHANGED <<payments, createOrderCalls>>
  /\ IF o \in DOMAIN payments /\ BookingsOf(o) = {}
       THEN /\ nextId <= MaxBookings
            /\ nextId' = nextId + 1
            /\ bookings' = bookings @@ (nextId :> ControllerBookingRow(u, d, o, now'))
            /\ Respond(r, 200, NoStatus)
       ELSE /\ UNCHANGED <<bookings, nextId>>
            /\ Respond(r, 500, NoStatus)

\* ------------------------------ POST /bookings (routes/bookings.ts)
\* the insert of a booking without payment_id, no check and no payment order
LegacyCreateBooking(r, u, d) ==
  /\ Arrive(r)
  /\ nextId <= MaxBookings
  /\ nextId' = nextId + 1
  /\ bookings' = bookings @@ (nextId :> BookingRow(u, d, NoOrder, now'))
  /\ Respond(r, 200, NoStatus)
  /\ UNCHANGED <<payments, createOrderCalls>>

\* ------------------------------------------------- writes of a status event
\* the update of payments also writing the order amount of the gateway
SetPayment_AmountWritten(o, st, method, ptime) ==
  IF o \in DOMAIN payments
    THEN [payments EXCEPT ![o].status = st, ![o].paymentMethod = method,
                          ![o].paymentTime = ptime, ![o].updatedAt = now,
                          ![o].amount = 0]
    ELSE payments

\* the update of payments skipped once the stored status is terminal
SetPayment_TerminalKept(o, st, method, ptime) ==
  IF o \in DOMAIN payments /\ payments[o].status \notin {"PAID", "FAILED", "CANCELLED", "EXPIRED"}
    THEN [payments EXCEPT ![o].status = st, ![o].paymentMethod = method,
                          ![o].paymentTime = ptime, ![o].updatedAt = now]
    ELSE payments

\* the update of payments without its where clause
SetPayment_EveryRow(o, st, method, ptime) ==
  [p \in DOMAIN payments |->
     [payments[p] EXCEPT !.status = st, !.paymentMethod = method,
                         !.paymentTime = ptime, !.updatedAt = now]]

\* db.update(payments).set({status, paymentMethod, paymentTime, updatedAt})
\*   .where(eq(payments.orderId, o))
SetPayment(o, st, method, ptime) ==
  IF o \in DOMAIN payments
    THEN [payments EXCEPT ![o].status = st, ![o].paymentMethod = method,
                          ![o].paymentTime = ptime, ![o].updatedAt = now]
    ELSE payments

\* db.update(bookings).set({status: 'confirmed', paymentStatus: 'completed',
\*   updatedAt}).where(eq(bookings.paymentId, o))
ConfirmCompleted(o) ==
  [b \in DOMAIN bookings |->
     IF bookings[b].paymentId = o
       THEN [bookings[b] EXCEPT !.status = "confirmed",
                                !.paymentStatus = "completed", !.updatedAt = now]
       ELSE bookings[b]]

\* db.update(bookings).set({status: 'Confirmed', updatedAt})
\*   .where(eq(bookings.orderId, o))
ConfirmCapitalized(o) ==
  [b \in DOMAIN bookings |->
     IF bookings[b].paymentId = o
       THEN [bookings[b] EXCEPT !.status = "Confirmed", !.updatedAt = now]
       ELSE bookings[b]]

\* ----------------------- verifyPayment (routes/payment.ts), GET|POST verify
\* the lookup without its not-found answer: the handler goes on
VerifyPaymentSelect_NoNotFound(r, o) ==
  /\ Arrive(r)
  /\ UNCHANGED <<payments, bookings, nextId, createOrderCalls>>
  /\ Goto(r, [Idle EXCEPT !.kind = "verifyPayment", !.pc = "vp_updpay",
                           !.orderId = o,
                           !.seenStatus = IF o \in DOMAIN payments
                                            THEN payments[o].status ELSE NoStatus,
                           !.seenMethod = IF o \in DOMAIN payments
                                            THEN payments[o].paymentMethod ELSE NoMethod])

\* seenStatus, seenMethod: the row read into existingPayment
VerifyPaymentSelect(r, o) ==
  /\ Arrive(r)
  /\ UNCHANGED <<payments, bookings, nextId, createOrderCalls>>
  /\ IF o \notin DOMAIN payments
       THEN Respond(r, 404, NoStatus)
       ELSE Goto(r, [Idle EXCEPT !.kind = "verifyPayment", !.pc = "vp_updpay",
                                  !.orderId = o,
                                   !.seenStatus = payments[o].status,
                                   !.seenMethod = payments[o].paymentMethod])

\* cashfree.verifyOrder (a throw becomes 500), then the update of payments
VerifyPaymentUpdatePayment(r) ==
  /\ reqs[r].pc = "vp_updpay"
  /\ \/ \E res \in VerifyOrderResults :
          /\ payments' = SetPayment(reqs[r].orderId, res.status, res.method, res.ptime)
          /\ IF res.status = "PAID"
               THEN Goto(r, [reqs[r] EXCEPT !.pc = "vp_updbook"])
               ELSE Respond(r, 200, res.status)
     \/ /\ UNCHANGED payments
        /\ Respond(r, 500, NoStatus)
  /\ UNCHANGED <<bookings, now, overlaps, nextId, createOrderCalls>>

VerifyPaymentUpdateBooking(r) ==
  /\ reqs[r].pc = "vp_updbook"
  /\ bookings' = ConfirmCompleted(reqs[r].orderId)
  /\ Respond(r, 200, "PAID")
  /\ UNCHANGED <<payments, now, overlaps, nextId, createOrderCalls>>

\* ------------- GET /payment-status/:orderId (controllers/booking.ts)
\* statusMap[order_status] || 'UNKNOWN': used for the response only
statusMap(st) ==
  CASE st = "PAID" -> "SUCCESS"
    [] st = "FAILED" -> "FAILED"
    [] st = "CANCELLED" -> "CANCELLED"
    [] st = "PENDING" -> "PENDING"
    [] st = "USER_DROPPED" -> "CANCELLED"
    [] st = "EXPIRED" -> "EXPIRED"
    [] OTHER -> "UNKNOWN"

PaymentStatusSelect(r, o) ==
  /\ Arrive(r)
  /\ UNCHANGED <<payments, bookings, nextId, createOrderCalls>>
  /\ IF o \notin DOMAIN payments
       THEN Respond(r, 404, "ERROR")
       ELSE Goto(r, [Idle EXCEPT !.kind = "paymentStatus", !.pc = "ps_updpay",
                                  !.orderId = o,
                                   !.seenStatus = payments[o].status,
                                   !.seenMethod = payments[o].paymentMethod])

\* the failure of verifyOrder stored as a FAILED payment
PaymentStatusUpdatePayment_FailureStored(r) ==
  /\ reqs[r].pc = "ps_updpay"
  /\ \/ \E res \in VerifyOrderResults :
          /\ payments' = SetPayment(reqs[r].orderId, res.status, res.method, res.ptime)
          /\ IF res.status = "PAID"
               THEN Goto(r, [reqs[r] EXCEPT !.pc = "ctl_selbook"])
               ELSE Respond(r, 200, statusMap(res.status))
     \/ /\ payments' = SetPayment(reqs[r].orderId, "FAILED", reqs[r].seenMethod, NoTime)
        /\ Respond(r, 502, "ERROR")
  /\ UNCHANGED <<bookings, now, overlaps, nextId, createOrderCalls>>

\* cashfree.verifyOrder (a throw becomes 502), then the update of payments
\* with the raw order_status
PaymentStatusUpdatePayment(r) ==
  /\ reqs[r].pc = "ps_updpay"
  /\ \/ \E res \in VerifyOrderResults :
          /\ payments' = SetPayment(reqs[r].orderId, res.status, res.method, res.ptime)
          /\ IF res.status = "PAID"
               THEN Goto(r, [reqs[r] EXCEPT !.pc = "ctl_selbook"])
               ELSE Respond(r, 200, statusMap(res.status))
     \/ /\ UNCHANGED payments
        /\ Respond(r, 502, "ERROR")
  /\ UNCHANGED <<bookings, now, overlaps, nextId, createOrderCalls>>

\* ------------------------------ POST /verify (controllers/booking.ts)
\* cashfree.verifyOrder comes first (a throw becomes 502), then the select
ControllerVerifySelect(r, o) ==
  /\ Arrive(r)
  /\ UNCHANGED <<payments, bookings, nextId, createOrderCalls>>
  /\ \/ Respond(r, 502, NoStatus)
     \/ IF o \notin DOMAIN payments
          THEN Respond(r, 404, NoStatus)
          ELSE Goto(r, [Idle EXCEPT !.kind = "verify", !.pc = "cv_updpay",
                                     !.orderId = o,
                                   !.seenStatus = payments[o].status,
                                   !.seenMethod = payments[o].paymentMethod])

ControllerVerifyUpdatePayment(r) ==
  /\ reqs[r].pc = "cv_updpay"
  /\ \E res \in VerifyOrderResults :
       /\ payments' = SetPayment(reqs[r].orderId, res.status, res.method, res.ptime)
       /\ IF res.status = "PAID"
            THEN Goto(r, [reqs[r] EXCEPT !.pc = "ctl_selbook"])
            ELSE Respond(r, 200, res.status)
  /\ UNCHANGED <<bookings, now, overlaps, nextId, createOrderCalls>>

\* ------------------------------ POST /webhook (controllers/booking.ts)
\* body: the order id in body.data.order (NoOrder: a body without it); the
\* signature is checked only when the header is present
WebhookReceive(r, body, signature) ==
  /\ Arrive(r)
  /\ UNCHANGED <<payments, bookings, nextId, createOrderCalls>>
  /\ IF signature # NoSignature /\ ~verifyWebhookSignature(body, signature)
       THEN Respond(r, 401, NoStatus)
       ELSE IF body = NoOrder
         THEN Respond(r, 200, NoStatus)
         ELSE IF body \notin DOMAIN payments
           THEN Respond(r, 404, NoStatus)
           ELSE Goto(r, [Idle EXCEPT !.kind = "webhook", !.pc = "wh_updpay",
                                      !.orderId = body,
                                      !.signature = signature,
                                      !.seenStatus = payments[body].status,
                                      !.seenMethod = payments[body].paymentMethod])

\* status: body.data.order.order_status; paymentMethod:
\* body.data.payment?.payment_method || existingPayment.paymentMethod;
\* paymentTime: new Date()
WebhookUpdatePayment(r) ==
  /\ reqs[r].pc = "wh_updpay"
  /\ \E st \in ReportedStatuses, m \in Methods :
       /\ payments' = SetPayment(reqs[r].orderId, st,
                                 IF m # NoMethod THEN m ELSE reqs[r].seenMethod, now)
       /\ IF st = "PAID"
            THEN Goto(r, [reqs[r] EXCEPT !.pc = "ctl_selbook"])
            ELSE Respond(r, 200, st)
  /\ UNCHANGED <<bookings, now, overlaps, nextId, createOrderCalls>>

\* shared by /payment-status, /verify and /webhook after a PAID:
\* const [booking] = select from bookings where orderId; if (booking) ...
ControllerSelectBooking(r) ==
  /\ reqs[r].pc = "ctl_selbook"
  /\ IF BookingsOf(reqs[r].orderId) = {}
       THEN Respond(r, 200, IF reqs[r].kind = "paymentStatus" THEN "SUCCESS" ELSE "PAID")
       ELSE Goto(r, [reqs[r] EXCEPT !.pc = "ctl_updbook"])
  /\ UNCHANGED <<payments, bookings, now, overlaps, nextId, createOrderCalls>>

ControllerUpdateBooking(r) ==
  /\ reqs[r].pc = "ctl_updbook"
  /\ bookings' = ConfirmCapitalized(reqs[r].orderId)
  /\ Respond(r, 200, IF reqs[r].kind = "paymentStatus" THEN "SUCCESS" ELSE "PAID")
  /\ UNCHANGED <<payments, now, overlaps, nextId, createOrderCalls>>

\* ------------------- PATCH /bookings/:id, PATCH /admin/bookings/:id
\* the validated body (updateBookingSchema): every field optional
UpdateInputs ==
  [status : {NoStatus, "pending", "confirmed", "cancelled"},
   paymentStatus : {NoStatus, "pending", "completed", "failed"},
   date : {NoDate} \cup Dates]

\* {...(updates.status && {status}), ...(updates.paymentStatus &&
\*  {paymentStatus}), ...(updates.date && {date}), updatedAt}
updateData(row, updates) ==
  [row EXCEPT
     !.status = IF updates.status # NoStatus THEN updates.status ELSE @,
     !.paymentStatus = IF updates.paymentStatus # NoStatus THEN updates.paymentStatus ELSE @,
     !.date = IF updates.date # NoDate THEN updates.date ELSE @,
     !.updatedAt = now]

\* the lookup by id alone, as the admin's
UserPatchFind_AnyOwner(r, u, b) ==
  /\ Arrive(r)
  /\ UNCHANGED <<payments, bookings, nextId, createOrderCalls>>
  /\ IF b \in DOMAIN bookings
       THEN Goto(r, [Idle EXCEPT !.kind = "userPatch", !.pc = "up_update",
                                  !.bookingId = b, !.user = u])
       ELSE Respond(r, 404, NoStatus)

\* findMany(id = bookingId and userId = user.id)
UserPatchFind(r, u, b) ==
  /\ Arrive(r)
  /\ UNCHANGED <<payments, bookings, nextId, createOrderCalls>>
  /\ IF b \in DOMAIN bookings /\ bookings[b].userId = u
       THEN Goto(r, [Idle EXCEPT !.kind = "userPatch", !.pc = "up_update",
                                  !.bookingId = b, !.user = u])
       ELSE Respond(r, 404, NoStatus)

\* update(bookings).set(updateData).where(id = bookingId).returning();
\* updatedBooking.id throws when no row was returned
UserPatchUpdate(r) ==
  /\ reqs[r].pc = "up_update"
  /\ LET b == reqs[r].bookingId IN
     IF b \in DOMAIN bookings
       THEN /\ \E updates \in UpdateInputs :
                 bookings' = [bookings EXCEPT ![b] = updateData(@, updates)]
            /\ Respond(r, 200, NoStatus)
       ELSE /\ UNCHANGED bookings
            /\ Respond(r, 500, NoStatus)
  /\ UNCHANGED <<payments, now, overlaps, nextId, createOrderCalls>>

\* findMany(id = bookingId)
AdminPatchFind(r, b) ==
  /\ Arrive(r)
  /\ UNCHANGED <<payments, bookings, nextId, createOrderCalls>>
  /\ IF b \in DOMAIN bookings
       THEN Goto(r, [Idle EXCEPT !.kind = "adminPatch", !.pc = "ap_update",
                                  !.bookingId = b])
       ELSE Respond(r, 404, NoStatus)

AdminPatchUpdate(r) ==
  /\ reqs[r].pc = "ap_update"
  /\ LET b == reqs[r].bookingId IN
     IF b \in DOMAIN bookings
       THEN \E updates \in UpdateInputs :
              bookings' = [bookings EXCEPT ![b] = updateData(@, updates)]
       ELSE UNCHANGED bookings
  /\ Respond(r, 200, NoStatus)
  /\ UNCHANGED <<payments, now, overlaps, nextId, createOrderCalls>>

\* ------------------ DELETE /bookings/:id, DELETE /admin/bookings/:id
\* db.delete(bookings).where(eq(bookings.id, b))
DeleteBooking(b) == [x \in DOMAIN bookings \ {b} |-> bookings[x]]

\* findMany(id = bookingId and userId = user.id)
UserDeleteFind(r, u, b) ==
  /\ Arrive(r)
  /\ UNCHANGED <<payments, bookings, nextId, createOrderCalls>>
  /\ IF b \in DOMAIN bookings /\ bookings[b].userId = u
       THEN Goto(r, [Idle EXCEPT !.kind = "userDelete", !.pc = "ud_delete",
                                  !.bookingId = b, !.user = u])
       ELSE Respond(r, 404, NoStatus)

UserDeleteDelete(r) ==
  /\ reqs[r].pc = "ud_delete"
  /\ bookings' = DeleteBooking(reqs[r].bookingId)
  /\ Respond(r, 200, NoStatus)
  /\ UNCHANGED <<payments, now, overlaps, nextId, createOrderCalls>>

\* findMany(id = bookingId)
AdminDeleteFind(r, b) ==
  /\ Arrive(r)
  /\ UNCHANGED <<payments, bookings, nextId, createOrderCalls>>
  /\ IF b \in DOMAIN bookings
       THEN Goto(r, [Idle EXCEPT !.kind = "adminDelete", !.pc = "ad_delete",
                                  !.bookingId = b])
       ELSE Respond(r, 404, NoStatus)

AdminDeleteDelete(r) ==
  /\ reqs[r].pc = "ad_delete"
  /\ bookings' = DeleteBooking(reqs[r].bookingId)
  /\ Respond(r, 200, NoStatus)
  /\ UNCHANGED <<payments, now, overlaps, nextId, createOrderCalls>>

\* ------------------------------------------------------------ the system
Next ==
  \/ \E r \in Slots, u \in Users, d \in Dates : CreateBookingCheck(r, u, d)
  \/ \E r \in Slots : CreateBookingInsertBooking(r)
  \/ \E r \in Slots : CreateBookingInsertPayment(r)
  \/ \E r \in Slots : CreateBookingUpdateSession(r)
  \/ \E r \in Slots, o \in OrderIds \cup {NoOrder} : CreatePaymentSession(r, o)
  \/ \E r \in Slots, u \in Users, d \in Dates, o \in OrderIds :
       ControllerCreateBooking(r, u, d, o)
  \/ \E r \in Slots, u \in Users, d \in Dates : LegacyCreateBooking(r, u, d)
  \/ \E r \in Slots, o \in OrderIds : VerifyPaymentSelect(r, o)
  \/ \E r \in Slots : VerifyPaymentUpdatePayment(r)
  \/ \E r \in Slots : VerifyPaymentUpdateBooking(r)
  \/ \E r \in Slots, o \in OrderIds : PaymentStatusSelect(r, o)
  \/ \E r \in Slots : PaymentStatusUpdatePayment(r)
  \/ \E r \in Slots, o \in OrderIds : ControllerVerifySelect(r, o)
  \/ \E r \in Slots : ControllerVerifyUpdatePayment(r)
  \/ \E r \in Slots, body \in OrderIds \cup {NoOrder} :
       \E signature \in {NoSignature, ForgedSignature, generateSignature(body)} :
         WebhookReceive(r, body, signature)
  \/ \E r \in Slots : WebhookUpdatePayment(r)
  \/ \E r \in Slots : ControllerSelectBooking(r)
  \/ \E r \in Slots : ControllerUpdateBooking(r)
  \/ \E r \in Slots, u \in Users, b \in BookingIds : UserPatchFind(r, u, b)
  \/ \E r \in Slots : UserPatchUpdate(r)
  \/ \E r \in Slots, b \in BookingIds : AdminPatchFind(r, b)
  \/ \E r \in Slots : AdminPatchUpdate(r)
  \/ \E r \in Slots, u \in Users, b \in BookingIds : UserDeleteFind(r, u, b)
  \/ \E r \in Slots : UserDeleteDelete(r)
  \/ \E r \in Slots, b \in BookingIds : AdminDeleteFind(r, b)
  \/ \E r \in Slots : AdminDeleteDelete(r)

Spec == Init /\ [][Next]_vars

\* ------------------------------------------------- vocabulary of the claims
\* the gateway statuses the specification calls terminal
TerminalStatuses == {"PAID", "FAILED", "CANCELLED", "EXPIRED"}

EventKinds == {"verifyPayment", "paymentStatus", "verify", "webhook"}

\* where a status-event handler stands right before its write of payments
EventWritePcs == {"vp_updpay", "ps_updpay", "cv_updpay", "wh_updpay"}

\* where it stands between its write of payments and its write of bookings
\* (only a PAID event gets there)
BetweenWritesPcs == {"vp_updbook", "ctl_selbook", "ctl_updbook"}

\* request r takes the step
Acted(r) == reqs'[r] # reqs[r]

\* request r takes the step that applies its status event to payments (the
\* gateway did not throw)
EventWrite(r) ==
  /\ reqs[r].pc \in EventWritePcs
  /\ Acted(r)
  /\ lastResponse'.code \notin {500, 502}

\* the status that event reports: PAID when the handler goes on to the
\* booking, else the status echoed in its response (status: order_status;
\* /payment-status echoes statusMap[order_status])
EventReports(r, st) ==
  /\ EventWrite(r)
  /\ IF reqs'[r].pc \in BetweenWritesPcs
       THEN st = "PAID"
       ELSE lastResponse'.status =
              (IF reqs[r].kind = "paymentStatus" THEN statusMap(st) ELSE st)

\* C1: in every reachable state a Booking whose status is confirmed has a
\* Payment Order with the same orderId whose gatewayStatus is PAID.
C1_ConfirmedImpliesPaid ==
  \A b \in DOMAIN bookings :
    bookings[b].status = "confirmed" =>
      /\ bookings[b].paymentId \in DOMAIN payments
      /\ payments[bookings[b].paymentId].status = "PAID"

\* C2: once a Payment Order's gatewayStatus is terminal (PAID, FAILED,
\* CANCELLED, EXPIRED), no later step changes it.
C2_TerminalStatusFrozen ==
  [][\A o \in DOMAIN payments :
       payments[o].status \in TerminalStatuses =>
         payments'[o].status = payments[o].status]_vars

\* C3: once a Booking's status is confirmed or cancelled, no later write
\* (status event, user PATCH, admin PATCH) changes it.
C3_BookingStatusFrozen ==
  [][\A b \in DOMAIN bookings :
       (bookings[b].status \in {"confirmed", "cancelled"} /\ b \in DOMAIN bookings') =>
         bookings'[b].status = bookings[b].status]_vars

\* C4: idempotence: applying a status event that reports the status the last
\* applied event stored (a status other than the creation default PENDING is
\* stored only by an event that reported it) changes no persisted field of
\* the Payment Order or of the Booking, updatedAt included.
C4_ReplayWritesNothing ==
  [][\A r \in Slots :
       (/\ EventWrite(r)
        /\ payments[reqs[r].orderId].status # "PENDING"
        /\ EventReports(r, payments[reqs[r].orderId].status)) =>
         (payments' = payments /\ bookings' = bookings)]_vars

\* C5: when two status events for one orderId are handled concurrently, the
\* handler that finds the Payment Order changed since it read it performs no
\* status write: only one of the two transitions is committed.
C5_LoserWritesNoStatus ==
  [][\A r \in Slots :
       (/\ EventWrite(r)
        /\ payments[reqs[r].orderId].status # reqs[r].seenStatus) =>
         payments'[reqs[r].orderId].status = payments[reqs[r].orderId].status]_vars

\* C6: the Payment Order write and the Booking write of one status event are
\* one atomic unit: no state is reachable in which a handler has written the
\* new gatewayStatus PAID while the Booking still is pending/pending.
C6_NoHalfAppliedEvent ==
  \A r \in Slots :
    reqs[r].pc \in BetweenWritesPcs =>
      ~ /\ payments[reqs[r].orderId].status = "PAID"
        /\ \E b \in BookingsOf(reqs[r].orderId) :
             bookings[b].status = "pending" /\ bookings[b].paymentStatus = "pending"

\* C7: a webhook request whose signature is missing or does not verify
\* mutates neither the Payment Order nor the Booking.
C7_UnverifiedWebhookMutatesNothing ==
  [][\A r \in Slots :
       (/\ reqs[r].kind = "webhook"
        /\ Acted(r)
        /\ ~verifyWebhookSignature(reqs[r].orderId, reqs[r].signature)) =>
         (payments' = payments /\ bookings' = bookings)]_vars

\* C8: when the Payment Order is PAID, an event for the same orderId that
\* reports FAILED is answered with a Conflict (409), not a success, and
\* leaves the Payment Order and the Booking unchanged.
C8_FailedAfterPaidConflicts ==
  [][\A r \in Slots :
       (/\ EventReports(r, "FAILED")
        /\ payments[reqs[r].orderId].status = "PAID") =>
         (/\ lastResponse'.code = 409
          /\ payments' = payments
          /\ bookings' = bookings)]_vars

\* C9: an unrecognized reported status is never applied: the stored
\* gatewayStatus is always one of the six recognized values.
C9_StoredStatusRecognized ==
  \A o \in DOMAIN payments : payments[o].status \in RecognizedStatuses

\* C10: when a PAID event was applied to a Payment Order in a non-terminal
\* status, from every event source, the handler leaves the Booking with that
\* orderId with status confirmed and paymentStatus completed.
C10_PaidConfirmsAndCompletes ==
  [][\A r \in Slots :
       (/\ reqs[r].pc \in {"vp_updbook", "ctl_updbook"}
        /\ Acted(r)
        /\ reqs[r].seenStatus \notin TerminalStatuses) =>
         \A b \in DOMAIN bookings' :
           bookings'[b].paymentId = reqs[r].orderId =>
             /\ bookings'[b].status = "confirmed"
             /\ bookings'[b].paymentStatus = "completed"]_vars

\* C11: when an event reporting CANCELLED, USER_DROPPED or EXPIRED is applied
\* to a Payment Order whose gatewayStatus is PENDING, every Booking with that
\* orderId ends with status cancelled and paymentStatus failed.
C11_CancellationCancelsBooking ==
  [][\A r \in Slots :
       (/\ \E st \in {"CANCELLED", "USER_DROPPED", "EXPIRED"} : EventReports(r, st)
        /\ payments[reqs[r].orderId].status = "PENDING") =>
         \A b \in DOMAIN bookings' :
           bookings'[b].paymentId = reqs[r].orderId =>
             /\ bookings'[b].status = "cancelled"
             /\ bookings'[b].paymentStatus = "failed"]_vars

\* C12: when an event reporting FAILED is applied to a Payment Order whose
\* gatewayStatus is PENDING, a pending Booking with that orderId keeps status
\* pending and gets paymentStatus failed.
C12_FailureMarksPaymentFailed ==
  [][\A r \in Slots :
       (/\ EventReports(r, "FAILED")
        /\ payments[reqs[r].orderId].status = "PENDING") =>
         \A b \in BookingsOf(reqs[r].orderId) :
           bookings[b].status = "pending" =>
             /\ b \in DOMAIN bookings'
             /\ bookings'[b].status = "pending"
             /\ bookings'[b].paymentStatus = "failed"]_vars

\* C13: when a status event has been handled to its end (its handler answers
\* 200), every Payment Order whose gatewayStatus is PAID has a Booking, and
\* every Booking with its orderId has status confirmed.
C13_PaidImpliesConfirmed ==
  [][\A r \in Slots :
       (/\ reqs[r].kind \in EventKinds
        /\ Acted(r)
        /\ reqs'[r] = Idle
        /\ lastResponse'.code = 200) =>
         \A o \in DOMAIN payments' :
           payments'[o].status = "PAID" =>
             /\ \E b \in DOMAIN bookings' : bookings'[b].paymentId = o
             /\ \A b \in DOMAIN bookings' :
                  bookings'[b].paymentId = o => bookings'[b].status = "confirmed"]_vars

\* C14: of two concurrent creation requests (POST /bookings) for the same
\* userId and the same date only one creates a Booking: a creation request
\* does not insert its Booking when a concurrent creation request has already
\* inserted a non-cancelled Booking for the same (userId, date); it is
\* answered with a Conflict (409).
C14_ConcurrentCreationConflicts ==
  [][\A r \in Slots :
       (/\ reqs[r].pc = "cb_insbook"
        /\ Acted(r)
        /\ \E q \in Slots \ {r} :
             /\ reqs[q].kind = "createBooking"
             /\ reqs[q].bookingId \in DOMAIN bookings
             /\ bookings[reqs[q].bookingId].userId = reqs[r].user
             /\ bookings[reqs[q].bookingId].date = reqs[r].date
             /\ bookings[reqs[q].bookingId].status # "cancelled") =>
         (bookings' = bookings /\ lastResponse'.code = 409)]_vars

\* C15: when createOrder fails during booking creation (the request is
\* answered 500), neither the Booking nor the Payment Order that request
\* inserted exists afterwards.
C15_FailedCreationRolledBack ==
  [][\A r \in Slots :
       (/\ reqs[r].pc = "cb_updsess"
        /\ Acted(r)
        /\ lastResponse'.code = 500) =>
         (/\ reqs[r].bookingId \notin DOMAIN bookings'
          /\ reqs[r].orderId \notin DOMAIN payments')]_vars

\* C16: in every reachable state, the intermediate states of a creation
\* included, the orderId of every Booking is that of an existing Payment Order.
C16_BookingRefersToPaymentOrder ==
  \A b \in DOMAIN bookings : bookings[b].paymentId \in DOMAIN payments

\* C17: createOrder is invoked at most once for an orderId: once the gateway
\* has created the order (its Payment Order holds the session id the gateway
\* issued), no request invokes createOrder for that orderId again.
C17_CreateOrderAtMostOnce ==
  [][\A o \in DOMAIN payments :
       payments[o].paymentSessionId # NoSession =>
         createOrderCalls'[o] = createOrderCalls[o]]_vars

\* a status event for order id o arrives at request slot r; a webhook comes
\* without signature header or with the signature of its body
EventArrives(r, o) ==
  \/ VerifyPaymentSelect(r, o)
  \/ PaymentStatusSelect(r, o)
  \/ ControllerVerifySelect(r, o)
  \/ \E signature \in {NoSignature, generateSignature(o)} : WebhookReceive(r, o, signature)

C21_GatewayFailureMutatesNothing ==
  [][\A r \in Slots :
       (\/ /\ reqs[r].pc \in {"vp_updpay", "ps_updpay"}
           /\ Acted(r)
           /\ lastResponse'.code \in {500, 502}
        \/ /\ \E o \in OrderIds : ControllerVerifySelect(r, o)
           /\ lastResponse'.code = 502) =>
         (/\ payments' = payments
          /\ bookings' = bookings
          /\ reqs'[r] = Idle)]_vars

\* a payment-status poll of an existing order has just failed at the gateway
C21_Witness ==
  /\ lastResponse = Response(502, "ERROR")
  /\ payments # <<>>
  /\ bookings # <<>>

\* C22: a creation (POST /bookings) for (userId, date) is not rejected when
\* every existing Booking with that userId and date has status cancelled.
C22_CancelledDoesNotBlock ==
  [][\A r \in Slots, u \in Users, d \in Dates :
       (/\ CreateBookingCheck(r, u, d)
        /\ \A b \in DOMAIN bookings :
             (bookings[b].userId = u /\ bookings[b].date = d) =>
               bookings[b].status = "cancelled") =>
         lastResponse'.code # 400]_vars

\* C23: paymentMethod and paymentTime are written only by a transition into
\* PAID: a step that changes either field of a Payment Order leaves that
\* Payment Order with gatewayStatus PAID.
C23_PaymentDetailsOnlyOnPaid ==
  [][\A o \in DOMAIN payments :
       (\/ payments'[o].paymentMethod # payments[o].paymentMethod
        \/ payments'[o].paymentTime # payments[o].paymentTime) =>
         payments'[o].status = "PAID"]_vars

\* C24: in every reachable state a Booking whose paymentStatus is completed
\* has status confirmed and a Payment Order whose gatewayStatus is PAID.
C24_CompletedImpliesPaidConfirmed ==
  \A b \in DOMAIN bookings :
    bookings[b].paymentStatus = "completed" =>
      /\ bookings[b].status = "confirmed"
      /\ bookings[b].paymentId \in DOMAIN payments
      /\ payments[bookings[b].paymentId].status = "PAID"

\* C25: no step deletes a Booking while a Payment Order with its orderId
\* exists.
C25_NoDeleteWhilePaymentOrderExists ==
  [][\A b \in DOMAIN bookings :
       b \notin DOMAIN bookings' => bookings[b].paymentId \notin DOMAIN payments']_vars

\* C26: no step changes the amount or the currency of an existing Payment
\* Order, and no step removes a Payment Order.
C26_AmountCurrencyImmutable ==
  [][\A o \in DOMAIN payments :
       /\ o \in DOMAIN payments'
       /\ payments'[o].amount = payments[o].amount
       /\ payments'[o].currency = payments[o].currency]_vars

\* a Payment Order after its session-id update and a status event, with the
\* amount and currency of its creation
C26_Witness ==
  \E o \in DOMAIN payments :
    /\ createOrderCalls[o] = 1
    /\ BookingsOf(o) # {}
    /\ payments[o].paymentSessionId = SessionOf(o)
    /\ payments[o].status = "FAILED"
    /\ payments[o].amount = Amount
    /\ payments[o].currency = Currency

\* C27: last writer wins: the step in which a verify poll (verifyPayment,
\* POST /verify) or a webhook applies its event stores the raw status that
\* event reports, whatever the stored status was.
C27_LastWriterWins ==
  [][\A r \in Slots :
       (EventWrite(r) /\ reqs[r].kind # "paymentStatus") =>
         payments'[reqs[r].orderId].status =
           (IF reqs'[r].pc \in BetweenWritesPcs THEN "PAID" ELSE lastResponse'.status)]_vars

\* an event reporting PENDING has just overwritten the status of an order
\* whose Booking an earlier PAID event completed
C27_Witness ==
  /\ lastResponse = Response(200, "PENDING")
  /\ \E b \in DOMAIN bookings :
       /\ bookings[b].paymentStatus = "completed"
       /\ bookings[b].paymentId \in DOMAIN payments
       /\ payments[bookings[b].paymentId].status = "PENDING"
       /\ payments[bookings[b].paymentId].updatedAt = now
       /\ bookings[b].updatedAt < now

C29_UserTouchesOwnBookingsOnly ==
  [][\A r \in Slots :
       /\ \A u \in Users, b \in BookingIds :
            (/\ b \in DOMAIN bookings
             /\ bookings[b].userId # u
             /\ UserPatchFind(r, u, b) \/ UserDeleteFind(r, u, b)) =>
              (/\ lastResponse'.code = 404
               /\ reqs'[r] = Idle
               /\ bookings' = bookings)
       /\ (reqs[r].kind \in {"userPatch", "userDelete"} /\ Acted(r)) =>
            \A b \in DOMAIN bookings :
              (b \notin DOMAIN bookings' \/ bookings'[b] # bookings[b]) =>
                bookings[b].userId = reqs[r].user]_vars

\* the Booking of one user was cancelled by a PATCH while the Booking of
\* another user is as created
C29_Witness ==
  \E a, b \in DOMAIN bookings :
    /\ bookings[a].userId # bookings[b].userId
    /\ bookings[a].status = "cancelled"
    /\ bookings[a].updatedAt = now
    /\ bookings[b].status = "pending"
    /\ bookings[b].paymentStatus = "pending"
    /\ bookings[b].updatedAt < now
    /\ lastResponse = Response(200, NoStatus)

\* C30: POST /payments inserts a payments row only after createOrder
\* returned: a request answered 400 or 500 inserts nothing, and a request
\* that inserts a row has called createOrder and inserts exactly the row of
\* the order id of the body with the session id and the status the gateway
\* returned.
C30_InsertOnlyAfterCreateOrder ==
  [][\A r \in Slots, o \in OrderIds \cup {NoOrder} :
       CreatePaymentSession(r, o) =>
         /\ lastResponse'.code # 200 => payments' = payments
         /\ payments' # payments =>
              /\ createOrderCalls'[o] = createOrderCalls[o] + 1
              /\ DOMAIN payments' = DOMAIN payments \cup {o}
              /\ \A q \in DOMAIN payments : payments'[q] = payments[q]
              /\ payments'[o].paymentSessionId = SessionOf(o)
              /\ payments'[o].status \in CreateOrderStatuses
              /\ payments'[o].status = lastResponse'.status]_vars

\* POST /payments for a new order id has just inserted the row with the
\* status the gateway returned
C30_Witness ==
  /\ lastResponse = Response(200, "ACTIVE")
  /\ ClientOrderId \in DOMAIN payments
  /\ payments[ClientOrderId].status = "ACTIVE"
  /\ payments[ClientOrderId].paymentSessionId = SessionOf(ClientOrderId)
  /\ payments[ClientOrderId].updatedAt = now
  /\ createOrderCalls[ClientOrderId] = 1
====
